---- MODULE Spec2Model ----
(***************************************************************************)
(* A model of the Bangumi adapter of hiromi (src/src/bgmal/bgm.py).        *)
(*                                                                         *)
(* The adapter is one sequential object.  Its state is the session         *)
(* (_uid, _auth) written by __init__, and, while watched_list runs, the    *)
(* locals of its pagination loop (page, watched, the soup of the page      *)
(* being parsed).  The provider is the environment: every response it      *)
(* gives is drawn with \E at the moment the request is made.               *)
(*                                                                         *)
(* History variables (not program state):                                  *)
(*   op    the method called last,                                         *)
(*   ret   what that call returned or raised,                              *)
(*   reqs  the HTTP requests issued by that call, in order,                *)
(*   inp   the bodies the provider answered with in that call.             *)
(* Provider state: listed, the number of entries of the collection shown  *)
(* on the pages served so far in this call; endless, whether the provider  *)
(* shows a next marker on pages without bound.                             *)
(*                                                                         *)
(* Python values: None is <<>> and a present optional value x is <<x>>.    *)
(* A title is identified with the subject id it belongs to.                *)
(*                                                                         *)
(* watched_list is decorated with hiromi.cache.period_cache, which is not  *)
(* in this repository's sources; the model is of the decorated body, i.e.  *)
(* of a call that the cache lets through.                                  *)
(***************************************************************************)
EXTENDS Integers, Sequences, FiniteSets, TLC

VARIABLES pc, uid, auth, page, watched, todo, soup, op, ret, reqs, inp,
          listed, endless

vars == <<pc, uid, auth, page, watched, todo, soup, op, ret, reqs, inp,
          listed, endless>>

(***************************************************************************)
(* Bounds of the model.                                                    *)
(***************************************************************************)
\* A provider with a finite collection serves the next marker only on pages
\* below MaxPage; the model writes MaxPage for every page number >= MaxPage.
MaxPage == 3
\* The collection holds at most MaxItems entries over all its pages.
MaxItems == 2
\* Episode ids are 1..MaxEpId, an episode list has at most MaxEps entries.
MaxEpId == 3
MaxEps == 3
\* The list of watched episode ids has at most MaxProgress entries.
MaxProgress == 2
\* The provider's eps field, when present, is in 0..MaxEpCount.
MaxEpCount == 1
\* A search answer has at most MaxResults entries, a watching list MaxList.
MaxResults == 3
MaxList == 2

(***************************************************************************)
(* Program constants.                                                      *)
(***************************************************************************)
WatchingDefaultEps == 13
SearchDefaultEps == 1
WatchedZeroEps == 1
AnimeType == 2
SuccessCode == 200
ScoreOffset == 6

None == <<>>
Some(x) == <<x>>

Range(s) == {s[i] : i \in 1..Len(s)}

SeqsUpTo(S, n) == UNION {[1..k -> S] : k \in 0..n}

(***************************************************************************)
(* AnimeItem (bgmal/api.py, not among the sources).  search builds it      *)
(* positionally; the positions are title, score, userscore, episode,       *)
(* status, id, the order under which "episode count defaults to 1" of the  *)
(* specification is what the fourth argument of raw_to_AnimeItem does.     *)
(***************************************************************************)
AnimeItem(title, score, userscore, episode, status, id) ==
    [title |-> title, score |-> score, userscore |-> userscore,
     episode |-> episode, status |-> status, id |-> id]

(***************************************************************************)
(* What a call leaves behind: a returned list, a returned item, a returned *)
(* bool, a returned None, or a raised exception.                           *)
(***************************************************************************)
Pending == [kind |-> "pending", exc |-> "none", items |-> <<>>, flag |-> FALSE]
RetList(l) == [kind |-> "list", exc |-> "none", items |-> l, flag |-> FALSE]
RetItem(i) == [kind |-> "item", exc |-> "none", items |-> <<i>>, flag |-> FALSE]
RetBool(b) == [kind |-> "bool", exc |-> "none", items |-> <<>>, flag |-> b]
RetNone == [kind |-> "None", exc |-> "none", items |-> <<>>, flag |-> FALSE]
Raise(e) == [kind |-> "raise", exc |-> e, items |-> <<>>, flag |-> FALSE]

Req(kind, arg, ok) == [kind |-> kind, arg |-> arg, ok |-> ok]

NoInp == [all |-> <<>>, progress |-> <<>>, raw |-> <<>>, pages |-> <<>>,
          details |-> <<>>, body |-> <<>>]

(***************************************************************************)
(* list.sort() on a list of ints: insertion sort, ascending, stable.       *)
(***************************************************************************)
RECURSIVE Insert(_, _)
Insert(x, s) ==
    IF s = <<>> THEN <<x>>
    ELSE IF x < Head(s) THEN <<x>> \o s
    ELSE <<Head(s)>> \o Insert(x, Tail(s))

RECURSIVE PySort(_)
PySort(s) == IF s = <<>> THEN <<>> ELSE Insert(Head(s), PySort(Tail(s)))

(***************************************************************************)
(* next(filter(lambda x: x not in watched, all_episodes), None)            *)
(***************************************************************************)
RECURSIVE FirstNotIn(_, _)
FirstNotIn(s, w) ==
    IF s = <<>> THEN None
    ELSE IF Head(s) \notin Range(w) THEN Some(Head(s))
    ELSE FirstNotIn(Tail(s), w)

\* Faulty variants of NextEpisode: the sort forgotten; the watched list ignored.
NextEpisode_NoSort(all_episodes, watched_eps) ==
    FirstNotIn(all_episodes, watched_eps)

NextEpisode_IgnoreWatched(all_episodes, watched_eps) ==
    FirstNotIn(PySort(all_episodes), <<>>)

\* increment_status, lines 257-260.
NextEpisode(all_episodes, watched_eps) ==
    FirstNotIn(PySort(all_episodes), watched_eps)

(***************************************************************************)
(* next((raw for raw in get_raw_result() if raw['type'] == 2), None)       *)
(***************************************************************************)
RECURSIVE FirstOfType(_, _)
FirstOfType(raws, t) ==
    IF raws = <<>> THEN None
    ELSE IF Head(raws).type = t THEN Some(Head(raws))
    ELSE FirstOfType(Tail(raws), t)

\* Faulty variant of FirstAnime: the last match instead of the first.
RECURSIVE LastOfType(_, _)
LastOfType(raws, t) ==
    IF raws = <<>> THEN None
    ELSE IF raws[Len(raws)].type = t THEN Some(raws[Len(raws)])
    ELSE LastOfType(SubSeq(raws, 1, Len(raws) - 1), t)

FirstAnime_Last(raws) == LastOfType(raws, AnimeType)

\* search, line 153.
FirstAnime(raws) == FirstOfType(raws, AnimeType)

(***************************************************************************)
(* raw_to_AnimeItem(raw).  raw is None or a search entry; subscripting     *)
(* None raises TypeError.  The result is an exception name or the item.    *)
(***************************************************************************)
raw_to_AnimeItem(raw) ==
    IF raw = None THEN Raise("TypeError")
    ELSE LET r == raw[1] IN
         RetItem(AnimeItem(r.name, Some(r.score), None,
                           IF r.eps # None THEN r.eps[1] ELSE SearchDefaultEps,
                           None, r.id))

(***************************************************************************)
(* The item watching_list builds of one entry of the collection.           *)
(***************************************************************************)
WatchingItem(item) ==
    AnimeItem(item.subject.name, None, None,
              IF item.subject.eps # None THEN item.subject.eps[1]
              ELSE WatchingDefaultEps,
              Some(item.ep_status), item.subject.id)

RECURSIVE MapWatching(_)
MapWatching(data) ==
    IF data = <<>> THEN <<>>
    ELSE <<WatchingItem(Head(data))>> \o MapWatching(Tail(data))

(***************************************************************************)
(* Class tokens are sequences of characters.                               *)
(***************************************************************************)
StarsInfo == <<"s", "t", "a", "r", "s", "i", "n", "f", "o">>
SStars(d) == <<"s", "s", "t", "a", "r", "s", d>>

Digits == {"0", "1", "2", "3", "4", "5", "6", "7", "8", "9"}
DigitVal(c) ==
    CASE c = "0" -> 0 [] c = "1" -> 1 [] c = "2" -> 2 [] c = "3" -> 3
      [] c = "4" -> 4 [] c = "5" -> 5 [] c = "6" -> 6 [] c = "7" -> 7
      [] c = "8" -> 8 [] c = "9" -> 9

\* s[n:]
PySliceFrom(s, n) == IF n >= Len(s) THEN <<>> ELSE SubSeq(s, n + 1, Len(s))

RECURSIVE DecimalValue(_)
DecimalValue(s) ==
    IF s = <<>> THEN 0
    ELSE 10 * DecimalValue(SubSeq(s, 1, Len(s) - 1)) + DigitVal(s[Len(s)])

\* int(s) of a string without sign, blanks or underscores.
PyInt(s) ==
    IF s = <<>> \/ \E i \in 1..Len(s) : s[i] \notin Digits
    THEN [exc |-> "ValueError", val |-> 0]
    ELSE [exc |-> "none", val |-> DecimalValue(s)]

(***************************************************************************)
(* _bgmanime.score(): cls is the class attribute of the element found by   *)
(* item.find(class_='starsinfo'), None when there is no such element.      *)
(***************************************************************************)
score(cls) ==
    IF cls = None THEN [exc |-> "TypeError", val |-> 0]
    ELSE LET starsinfo == cls[1]
             stars == IF starsinfo[1] # StarsInfo THEN starsinfo[1]
                      ELSE starsinfo[Len(starsinfo)]
         IN PyInt(PySliceFrom(stars, ScoreOffset))

(***************************************************************************)
(* has_next_page(soup): pager is the list of the labels of the class-p     *)
(* elements under the page_inner element, None when there is no            *)
(* page_inner element.                                                     *)
(***************************************************************************)
NextMarker == ">>"
PrevMarker == "<<"

\* Faulty variant of has_next_page: the first control is looked at, not the last.
has_next_page_First(pager) ==
    IF pager = None THEN [exc |-> "AttributeError", val |-> FALSE]
    ELSE IF pager[1] = <<>> THEN [exc |-> "IndexError", val |-> FALSE]
    ELSE [exc |-> "none", val |-> pager[1][1] = NextMarker]

has_next_page(pager) ==
    IF pager = None THEN [exc |-> "AttributeError", val |-> FALSE]
    ELSE IF pager[1] = <<>> THEN [exc |-> "IndexError", val |-> FALSE]
    ELSE [exc |-> "none", val |-> pager[1][Len(pager[1])] = NextMarker]

(***************************************************************************)
(* _bgmanime.episodes() on the body of the detail answer, lines 214-221.   *)
(* data['eps'] of a body without eps raises KeyError.                      *)
(***************************************************************************)
episodes(data) ==
    IF data.eps = None THEN [exc |-> "KeyError", episode |-> 0]
    ELSE [exc |-> "none",
          episode |-> IF data.eps[1] # 0 THEN data.eps[1] ELSE WatchedZeroEps]

(***************************************************************************)
(* The provider: the answers it may give to each request.                  *)
(***************************************************************************)
Users == {"u1"}
Tokens == {"t1"}
Scores == {7}
EpsOpt == {None} \cup {Some(n) : n \in 0..MaxEpCount}
Types == {1, AnimeType}
Codes == {SuccessCode, 400}

\* POST /auth: an HTTP error, or a JSON object with or without each field.
AuthResponses ==
    {[ok |-> FALSE, username |-> None, auth |-> None]} \cup
    {[ok |-> TRUE, username |-> u, auth |-> a] :
        u \in {None} \cup {Some(x) : x \in Users},
        a \in {None} \cup {Some(x) : x \in Tokens}}

\* GET /user/{uid}/collection?cat=watching: the k-th entry is subject k.
WatchingData ==
    UNION {{[i \in 1..k |->
                [ep_status |-> f[i][2],
                 subject |-> [eps |-> f[i][1], id |-> i, name |-> i]]] :
            f \in [1..k -> EpsOpt \X (0..1)]} : k \in 0..MaxList}

\* GET /search/subject/{title}: the k-th entry is subject k.
SearchLists ==
    UNION {{[i \in 1..k |->
                [type |-> f[i][1], eps |-> f[i][2], id |-> i, name |-> i,
                 score |-> f[i][3]]] :
            f \in [1..k -> Types \X EpsOpt \X Scores]} : k \in 0..MaxResults}

\* The class attribute of an entry's starsinfo element (None: no element).
ClassAttrs ==
    {None, Some(<<SStars("9"), StarsInfo>>), Some(<<StarsInfo, SStars("7")>>)}

\* The labels of the pagination controls of a page (None: no page_inner).
NextPagers == {Some(<<"1", NextMarker>>)}
LastPagers == {None, Some(<<>>), Some(<<PrevMarker, "1">>)}

\* GET /anime/list/{uid}/collect?page=p, after n entries on earlier pages:
\* the next k entries of the collection, numbered on from n.  A provider
\* with a finite collection has no next marker from page MaxPage on.
Pages(p, n, unbounded) ==
    UNION {{[items |-> [i \in 1..k |-> [id |-> n + i, cls |-> f[i]]],
             pager |-> g] :
            f \in [1..k -> ClassAttrs],
            g \in LastPagers \cup
                  (IF p < MaxPage \/ unbounded THEN NextPagers ELSE {})} :
           k \in 0..(MaxItems - n)}

\* GET /subject/{id}?responseGroup=simple: the body of a 2xx answer.
DetailBodies(id) ==
    {[eps |-> e, score |-> sc, id |-> id] : e \in EpsOpt, sc \in Scores}

EpisodeLists == SeqsUpTo(1..MaxEpId, MaxEps)
ProgressLists == SeqsUpTo(1..MaxEpId, MaxProgress)

(***************************************************************************)
(* The request log keeps the first MaxLog requests of a call; a call       *)
(* against a provider with a finite collection issues no more than that.   *)
(***************************************************************************)
MaxLog == MaxPage + MaxItems
Log(s, e) == IF Len(s) < MaxLog THEN Append(s, e) ELSE s
LogPage(s, e) == IF Len(s) < MaxPage THEN Append(s, e) ELSE s

\* Faulty variant of NextPageNo: the page number is not counted up.
NextPageNo_Same(p) == p

\* page += 1, with MaxPage standing for every page number >= MaxPage.
NextPageNo(p) == IF p < MaxPage THEN p + 1 ELSE p

(***************************************************************************)
(* Initial state: no adapter constructed yet.                              *)
(***************************************************************************)
InitCommon ==
    /\ pc = "new"
    /\ uid = None
    /\ auth = None
    /\ page = 1
    /\ watched = <<>>
    /\ todo = <<>>
    /\ soup = None
    /\ op = "none"
    /\ ret = Pending
    /\ reqs = <<>>
    /\ inp = NoInp
    /\ listed = 0

Init == InitCommon /\ endless = FALSE

Finish(name, r) ==
    /\ pc' = "returned"
    /\ op' = name
    /\ ret' = r

(***************************************************************************)
(* Bangumi.__init__                                                        *)
(***************************************************************************)
Construct ==
    /\ pc = "new"
    /\ \E r \in AuthResponses :
        /\ reqs' = <<Req("auth", 0, r.ok)>>
        /\ inp' = [NoInp EXCEPT !.body = <<r>>]
        /\ IF ~r.ok
           THEN Finish("__init__", Raise("HTTPError")) /\ UNCHANGED <<uid, auth>>
           ELSE IF r.username = None
           THEN Finish("__init__", Raise("LoginFailedException"))
                /\ UNCHANGED <<uid, auth>>
           ELSE IF r.auth = None
           THEN Finish("__init__", Raise("LoginFailedException"))
                /\ uid' = r.username /\ UNCHANGED auth
           ELSE Finish("__init__", RetNone)
                /\ uid' = r.username /\ auth' = r.auth
    /\ UNCHANGED <<page, watched, todo, soup, listed, endless>>

(***************************************************************************)
(* The caller goes on after a call has returned or raised.  An adapter     *)
(* whose construction raised does not exist; the next one starts afresh.   *)
(***************************************************************************)
Resume ==
    /\ pc = "returned"
    /\ IF op = "__init__" /\ ret.kind = "raise"
       THEN pc' = "new" /\ uid' = None /\ auth' = None
       ELSE pc' = "idle" /\ UNCHANGED <<uid, auth>>
    /\ op' = "none"
    /\ ret' = Pending
    /\ reqs' = <<>>
    /\ inp' = NoInp
    /\ page' = 1
    /\ watched' = <<>>
    /\ todo' = <<>>
    /\ soup' = None
    /\ listed' = 0
    /\ UNCHANGED endless

(***************************************************************************)
(* Bangumi.watching_list                                                   *)
(***************************************************************************)
watching_list ==
    /\ pc = "idle"
    /\ \/ /\ reqs' = <<Req("collection", 0, FALSE)>>
          /\ Finish("watching_list", Raise("HTTPError"))
          /\ UNCHANGED inp
       \/ \E data \in WatchingData :
          /\ reqs' = <<Req("collection", 0, TRUE)>>
          /\ inp' = [NoInp EXCEPT !.raw = data]
          /\ Finish("watching_list", RetList(MapWatching(data)))
    /\ UNCHANGED <<uid, auth, page, watched, todo, soup, listed, endless>>

(***************************************************************************)
(* Bangumi.search                                                          *)
(***************************************************************************)
search ==
    /\ pc = "idle"
    /\ \/ /\ reqs' = <<Req("search", 0, FALSE)>>
          /\ Finish("search", Raise("HTTPError"))
          /\ UNCHANGED inp
       \/ /\ reqs' = <<Req("search", 0, TRUE)>>
          /\ Finish("search", Raise("KeyError"))     \* a body without 'list'
          /\ UNCHANGED inp
       \/ \E raws \in SearchLists :
          /\ reqs' = <<Req("search", 0, TRUE)>>
          /\ inp' = [NoInp EXCEPT !.raw = raws, !.body = <<"list">>]
          /\ Finish("search", raw_to_AnimeItem(FirstAnime(raws)))
    /\ UNCHANGED <<uid, auth, page, watched, todo, soup, listed, endless>>

(***************************************************************************)
(* Bangumi.mark_as_watched: pass                                           *)
(***************************************************************************)
mark_as_watched ==
    /\ pc = "idle"
    /\ Finish("mark_as_watched", RetNone)
    /\ UNCHANGED <<uid, auth, page, watched, todo, soup, reqs, inp, listed, endless>>

(***************************************************************************)
(* Bangumi.increment_status(anime_item), anime_item.id = anime_id          *)
(***************************************************************************)
SubjectIds == {1}

increment_status ==
    /\ pc = "idle"
    /\ \E anime_id \in SubjectIds :
       \/ /\ reqs' = <<Req("progress", anime_id, FALSE)>>
          /\ Finish("increment_status", Raise("HTTPError"))
          /\ UNCHANGED inp
       \/ \E w \in ProgressLists :
          \/ /\ reqs' = <<Req("progress", anime_id, TRUE),
                          Req("subject", anime_id, FALSE)>>
             /\ inp' = [NoInp EXCEPT !.progress = w]
             /\ Finish("increment_status", Raise("HTTPError"))
          \/ \E a \in EpisodeLists :
             LET next_episode == NextEpisode(a, w)
                 got == <<Req("progress", anime_id, TRUE),
                          Req("subject", anime_id, TRUE)>>
             IN /\ inp' = [NoInp EXCEPT !.progress = w, !.all = a]
                /\ IF next_episode = None
                   THEN /\ reqs' = got
                        /\ Finish("increment_status", RetBool(FALSE))
                   ELSE \/ /\ reqs' = Append(got, Req("mark", next_episode[1], FALSE))
                           /\ Finish("increment_status", Raise("HTTPError"))
                        \/ \E code \in Codes :
                           /\ reqs' = Append(got, Req("mark", next_episode[1], TRUE))
                           /\ Finish("increment_status", RetBool(code = SuccessCode))
    /\ UNCHANGED <<uid, auth, page, watched, todo, soup, listed, endless>>

(***************************************************************************)
(* Bangumi.watched_list: lines 94-96, then the loop of lines 97-107, one   *)
(* action per request made and per decision taken.                         *)
(***************************************************************************)
WL_Call ==
    /\ pc = "idle"
    /\ pc' = "wl_fetch"
    /\ op' = "watched_list"
    /\ page' = 1
    /\ watched' = <<>>
    /\ listed' = 0
    /\ UNCHANGED <<uid, auth, todo, soup, ret, reqs, inp, endless>>

\* Faulty variant of WL_FetchPage: a failed page request is tried again.
WL_FetchPage_Retry ==
    /\ pc = "wl_fetch"
    /\ \/ /\ reqs' = Log(reqs, Req("page", page, FALSE))
          /\ UNCHANGED <<pc, op, ret, inp, soup, todo, listed>>
       \/ \E html \in Pages(page, listed, endless) :
          /\ reqs' = Log(reqs, Req("page", page, TRUE))
          /\ inp' = [inp EXCEPT !.pages = LogPage(@, html)]
          /\ soup' = Some(html)
          /\ todo' = html.items
          /\ listed' = listed + Len(html.items)
          /\ pc' = "wl_items"
          /\ UNCHANGED <<op, ret>>
    /\ UNCHANGED <<uid, auth, page, watched, endless>>

\* Lines 98-101: fetch the page, raise on an HTTP error, find the entries.
WL_FetchPage ==
    /\ pc = "wl_fetch"
    /\ \/ /\ reqs' = Log(reqs, Req("page", page, FALSE))
          /\ Finish("watched_list", Raise("HTTPError"))
          /\ UNCHANGED <<inp, soup, todo, listed>>
       \/ \E html \in Pages(page, listed, endless) :
          /\ reqs' = Log(reqs, Req("page", page, TRUE))
          /\ inp' = [inp EXCEPT !.pages = LogPage(@, html)]
          /\ soup' = Some(html)
          /\ todo' = html.items
          /\ listed' = listed + Len(html.items)
          /\ pc' = "wl_items"
          /\ UNCHANGED <<op, ret>>
    /\ UNCHANGED <<uid, auth, page, watched, endless>>

\* Lines 102-103: watched.append(self._bgmanime(item)) for the next entry.
\* _bgmanime evaluates title(), score(), then episodes() with its request.
WL_Item ==
    /\ pc = "wl_items"
    /\ todo # <<>>
    /\ LET item == Head(todo)
           userscore == score(item.cls)
       IN IF userscore.exc # "none"
          THEN /\ Finish("watched_list", Raise(userscore.exc))
               /\ UNCHANGED <<reqs, inp, watched, todo>>
          ELSE \/ /\ reqs' = Log(reqs, Req("detail", item.id, FALSE))
                  /\ Finish("watched_list", Raise("HTTPError"))
                  /\ UNCHANGED <<inp, watched, todo>>
               \/ \E data \in DetailBodies(item.id) :
                  LET e == episodes(data)
                  IN /\ reqs' = Log(reqs, Req("detail", item.id, TRUE))
                     /\ inp' = [inp EXCEPT !.details = Log(@, data)]
                     /\ IF e.exc # "none"
                        THEN /\ Finish("watched_list", Raise(e.exc))
                             /\ UNCHANGED <<watched, todo>>
                        ELSE /\ watched' = Append(watched,
                                    AnimeItem(item.id, Some(data.score),
                                              Some(userscore.val), e.episode,
                                              Some(e.episode), data.id))
                             /\ todo' = Tail(todo)
                             /\ UNCHANGED <<pc, op, ret>>
    /\ UNCHANGED <<uid, auth, page, soup, listed, endless>>

\* Lines 104-106: stop on a page without successor, else count the page up.
WL_HasNext ==
    /\ pc = "wl_items"
    /\ todo = <<>>
    /\ LET h == has_next_page(soup[1].pager)
       IN IF h.exc # "none"
          THEN Finish("watched_list", Raise(h.exc)) /\ UNCHANGED page
          ELSE IF ~h.val
          THEN Finish("watched_list", RetList(watched)) /\ UNCHANGED page
          ELSE /\ page' = NextPageNo(page)
               /\ pc' = "wl_sleep"
               /\ UNCHANGED <<op, ret>>
    /\ UNCHANGED <<uid, auth, watched, todo, soup, reqs, inp, listed, endless>>

\* Line 107: time.sleep(1), then the next round of the loop.
WL_Sleep ==
    /\ pc = "wl_sleep"
    /\ pc' = "wl_fetch"
    /\ UNCHANGED <<uid, auth, page, watched, todo, soup, op, ret, reqs, inp,
                   listed, endless>>

WL_Step == WL_FetchPage \/ WL_Item \/ WL_HasNext \/ WL_Sleep

Next ==
    \/ Construct
    \/ Resume
    \/ watching_list
    \/ search
    \/ mark_as_watched
    \/ increment_status
    \/ WL_Call
    \/ WL_FetchPage
    \/ WL_Item
    \/ WL_HasNext
    \/ WL_Sleep

\* The provider's collection is finite.
Spec == Init /\ [][Next]_vars

\* Any provider, also one that shows a next marker on every page.  A call
\* that has started goes on: the interpreter runs the loop, and every
\* request is answered.
LiveInit == InitCommon /\ endless \in BOOLEAN
LiveSpec == LiveInit /\ [][Next]_vars /\ WF_vars(WL_Step)

(***************************************************************************)
(* Vocabulary of the properties.                                           *)
(***************************************************************************)
Returned(name) == pc = "returned" /\ op = name

InWatchedList == pc \in {"wl_fetch", "wl_items", "wl_sleep"}

IsPageReq(r) == r.kind = "page"
IsMarkReq(r) == r.kind = "mark"

AllOk(rs) == \A i \in 1..Len(rs) : rs[i].ok

\* The last pagination control of the page exists and is / is not the marker.
MarkerLast(pg) ==
    /\ pg.pager # None
    /\ pg.pager[1] # <<>>
    /\ pg.pager[1][Len(pg.pager[1])] = NextMarker

OtherLast(pg) ==
    /\ pg.pager # None
    /\ pg.pager[1] # <<>>
    /\ pg.pager[1][Len(pg.pager[1])] # NextMarker

RECURSIVE Flatten(_)
Flatten(pages) ==
    IF pages = <<>> THEN <<>> ELSE Head(pages).items \o Flatten(Tail(pages))

\* The score a well-formed entry shows: the digit of its sstars token.
ShownScore(cls) == IF cls = Some(<<SStars("9"), StarsInfo>>) THEN 9 ELSE 7

\* The item expected of a listed entry and the body of its detail answer.
ExpectedItem(entry, data) ==
    LET ep == IF data.eps[1] = 0 THEN 1 ELSE data.eps[1]
    IN [title |-> entry.id, score |-> Some(data.score),
        userscore |-> Some(ShownScore(entry.cls)), episode |-> ep,
        status |-> Some(ep), id |-> data.id]

\* The call was served in full: no HTTP error, every listed entry with a
\* starsinfo element and a detail answer that has eps.
ServedInFull ==
    /\ AllOk(reqs)
    /\ Len(inp.details) = Len(Flatten(inp.pages))
    /\ \A i \in 1..Len(inp.details) : inp.details[i].eps # None
    /\ \A i \in 1..Len(Flatten(inp.pages)) : Flatten(inp.pages)[i].cls # None

BothListsFetched ==
    /\ Returned("increment_status")
    /\ Len(reqs) >= 2
    /\ reqs[1].ok
    /\ reqs[2].ok

Unwatched == {x \in Range(inp.all) : x \notin Range(inp.progress)}

(***************************************************************************)
(* C2.  Whatever the order in which the episode ids arrive: when some id   *)
(* of the full list is not in the watched list, increment_status issues    *)
(* exactly one mark-watched request, for the smallest such id.             *)
(***************************************************************************)
C2_MarksSmallestUnwatched ==
    (BothListsFetched /\ Unwatched # {}) =>
        LET marks == SelectSeq(reqs, IsMarkReq)
        IN /\ Len(marks) = 1
           /\ marks[1].arg \in Unwatched
           /\ \A x \in Unwatched : marks[1].arg <= x

\* The ids arrive as 3, 1, 2 with 1 watched: episode 2 is marked, not 3.
C2_Witness ==
    /\ BothListsFetched
    /\ inp.all = <<3, 1, 2>>
    /\ inp.progress = <<1>>
    /\ Len(reqs) = 3
    /\ reqs[3] = Req("mark", 2, TRUE)

(***************************************************************************)
(* C3.  When every id of the full episode list is in the watched list      *)
(* (also when the episode list is empty), increment_status returns False   *)
(* and issues no mark-watched request.                                     *)
(***************************************************************************)
C3_AllWatchedReturnsFalse ==
    (BothListsFetched /\ Unwatched = {}) =>
        /\ ret = RetBool(FALSE)
        /\ SelectSeq(reqs, IsMarkReq) = <<>>

\* A non-empty episode list all of which is watched.
C3_Witness ==
    /\ BothListsFetched
    /\ inp.all = <<2, 1>>
    /\ inp.progress = <<1, 2>>
    /\ ret = RetBool(FALSE)
    /\ Len(reqs) = 2

\* The search request was answered with a body that has a list.
ListFetched ==
    /\ Returned("search")
    /\ reqs[1].ok
    /\ inp.body = <<"list">>

AnimeIndexes == {i \in 1..Len(inp.raw) : inp.raw[i].type = AnimeType}

(***************************************************************************)
(* C4.  When the raw result list has an entry of the anime type, search    *)
(* returns the item built of the first such entry in the order the         *)
(* provider gave, whatever entries of other types come before it.          *)
(***************************************************************************)
C4_SearchReturnsFirstAnime ==
    (ListFetched /\ AnimeIndexes # {}) =>
        LET j == CHOOSE i \in AnimeIndexes : \A k \in AnimeIndexes : i <= k
            raw == inp.raw[j]
        IN /\ ret.kind = "item"
           /\ ret.items[1].id = raw.id
           /\ ret.items[1].title = raw.name
           /\ ret.items[1].score = Some(raw.score)
           /\ ret.items[1].episode =
                  (IF raw.eps = None THEN 1 ELSE raw.eps[1])

\* An entry of another type first, then two anime entries: the second entry.
C4_Witness ==
    /\ ListFetched
    /\ Len(inp.raw) = 3
    /\ inp.raw[1].type # AnimeType
    /\ inp.raw[2].type = AnimeType
    /\ inp.raw[3].type = AnimeType
    /\ ret.kind = "item"
    /\ ret.items[1].id = 2

(***************************************************************************)
(* C5.  When the raw result list has no entry of the anime type (also      *)
(* when it is empty), search returns None and raises nothing.              *)
(***************************************************************************)
C5_NoAnimeReturnsNone ==
    (ListFetched /\ AnimeIndexes = {}) => ret = RetNone

(***************************************************************************)
(* C6.  A construction that fails, because the authentication request      *)
(* fails or because its answer lacks username or auth, fails with          *)
(* LoginFailedException, never with an HTTP error; a construction that     *)
(* succeeds has set the user id and the auth token.                        *)
(***************************************************************************)
C6_LoginFailureIsDistinct ==
    Returned("__init__") =>
        /\ ret.kind = "raise" => ret.exc = "LoginFailedException"
        /\ ret.kind # "raise" => (uid # None /\ auth # None)

(***************************************************************************)
(* C7.  A request of a watched_list call that fails with an HTTP error is  *)
(* the last request of the call: the call has ended with that error, and   *)
(* returns none of the items parsed before.                                *)
(***************************************************************************)
C7_HttpErrorAborts ==
    (op = "watched_list" /\ ~endless) =>
        \A i \in 1..Len(reqs) :
            ~reqs[i].ok =>
                /\ i = Len(reqs)
                /\ pc = "returned"
                /\ ret = Raise("HTTPError")

\* The second page fails after an item of the first page was parsed.
C7_Witness ==
    /\ Returned("watched_list")
    /\ ~endless
    /\ Len(reqs) = 3
    /\ reqs[3] = Req("page", 2, FALSE)
    /\ Len(watched) = 1
    /\ ret.items = <<>>
    /\ ret.exc = "HTTPError"

(***************************************************************************)
(* C8.  Every call of watched_list terminates, whatever the provider       *)
(* answers.                                                                *)
(***************************************************************************)
C8_AlwaysTerminates == InWatchedList ~> (pc = "returned")

(***************************************************************************)
(* C8, amended.  Every call of watched_list against a provider that stops  *)
(* showing the next marker from some page on terminates.                   *)
(***************************************************************************)
C8_TerminatesOnFiniteCollection ==
    (InWatchedList /\ ~endless) ~> (pc = "returned")

\* A call over several pages of a finite collection that has returned.
C8_Witness ==
    /\ Returned("watched_list")
    /\ ~endless
    /\ Len(inp.pages) = MaxPage
    /\ ret.kind = "list"

(***************************************************************************)
(* C9.  Every item returned by watching_list, watched_list or search has   *)
(* an episode count >= 1, also when the provider's eps is missing or 0.    *)
(***************************************************************************)
C9_EpisodeAtLeastOne ==
    (pc = "returned" /\ op \in {"watching_list", "watched_list", "search"}) =>
        \A i \in 1..Len(ret.items) : ret.items[i].episode >= 1

\* The last page fetched has been parsed to its end without error.
PageParsed ==
    /\ op = "watched_list"
    /\ soup # None
    /\ todo = <<>>
    /\ AllOk(reqs)
    /\ pc \in {"wl_sleep", "returned"}

(***************************************************************************)
(* C10.  After a page is fetched and parsed, watched_list goes on to the   *)
(* next page exactly if the label of the last pagination control of the    *)
(* page is the next marker; in every other case, also that of a page       *)
(* without pagination control, it returns the items collected so far.      *)
(***************************************************************************)
C10_StopsWithoutMarker ==
    (PageParsed /\ ~endless) =>
        IF MarkerLast(soup[1])
        THEN pc = "wl_sleep"
        ELSE pc = "returned" /\ ret = RetList(watched)

====
